---- MODULE Spec2Model ----
(***************************************************************************)
(* Model of the CDS Hooks "patient-view" service.  The repository holds    *)
(* two copies of the one file: src/index.js and src/unnamed/part_000.      *)
(* They differ in the status of the hook-validation error, in the handler  *)
(* bound to OPTIONS on the discovery path and in the card's source; the    *)
(* variable "variant" says which copy is running.                          *)
(*                                                                         *)
(* Express 4 semantics are assumed for the parts the source delegates to   *)
(* the framework: a body-parser error skips every ordinary middleware and  *)
(* route and is answered by the default error handler; a rejected promise  *)
(* returned by an async handler is not observed by the router, so the      *)
(* request is left without a response; app.get also answers HEAD; paths    *)
(* match without regard to case and with an optional trailing slash; the   *)
(* body of the answer to a HEAD request is not sent.                       *)
(***************************************************************************)
EXTENDS Integers, Sequences, FiniteSets, TLC

VARIABLES variant, pc, req, fhirReply, immun, cards, err, res, sent, fhirCalls

vars == <<variant, pc, req, fhirReply, immun, cards, err, res, sent, fhirCalls>>

(* ------------------------------ bounds --------------------------------- *)
NumRequests == 2
MaxEntries == 2
MaxTotal == 2

Requests == 1..NumRequests

Variants == {"index.js", "part_000"}

(* ------------------------------ inputs --------------------------------- *)
DiscoveryPath == "/test1/cds-services"
PatientPath == "/test1/cds-services/patientService"

Methods == {"GET", "POST", "OPTIONS", "HEAD", "PUT"}
Paths ==
    {DiscoveryPath, PatientPath, "/test1/cds-services/",
     "/TEST1/CDS-SERVICES/PATIENTSERVICE", "/other"}
Hooks == {"patient-view", "Patient-View", "order-review"}

\* An inbound HTTP request as far as the handlers look at it.
HttpRequests ==
    [method : Methods, path : Paths, bodyParses : BOOLEAN,
     hasAuth : BOOLEAN, hook : Hooks, hasContext : BOOLEAN]

NoReq ==
    [method |-> "", path |-> "", bodyParses |-> FALSE,
     hasAuth |-> FALSE, hook |-> "", hasContext |-> FALSE]

\* Vaccine names; LocaleRank is their position in the collation order that
\* String.prototype.localeCompare uses (lower case before upper case at the
\* tertiary level, so "flu" < "Flu" < "MMR", unlike code-unit order).
Names == {"Flu", "MMR", "flu"}

LocaleRank(s) ==
    CASE s = "flu" -> 1
      [] s = "Flu" -> 2
      [] s = "MMR" -> 3

LocaleCompare(a, b) ==
    IF LocaleRank(a) < LocaleRank(b) THEN -1
    ELSE IF LocaleRank(a) > LocaleRank(b) THEN 1 ELSE 0

\* expirationDate values a FHIR server can put in the JSON document.
Dates == {"", "2025-01-01"}

\* A bundle entry: hasCode says whether resource.vaccineCode is there,
\* hasExp whether resource.expirationDate is.
Entries ==
    [hasCode : {TRUE}, text : Names, hasExp : {TRUE}, exp : Dates]
    \cup [hasCode : {TRUE}, text : Names, hasExp : {FALSE}, exp : {""}]
    \cup [hasCode : {FALSE}, text : {""}, hasExp : {FALSE}, exp : {""}]

EntryLists == UNION {[1..n -> Entries] : n \in 0..MaxEntries}

\* What the outbound call settles with: a rejection, a body that is not
\* JSON, or a Bundle-shaped document (total and entry may each be missing).
NoReply ==
    [kind |-> "none", hasTotal |-> FALSE, total |-> 0,
     hasEntry |-> FALSE, entry |-> <<>>]

Failures ==
    [kind : {"reject", "nonjson"}, hasTotal : {FALSE}, total : {0},
     hasEntry : {FALSE}, entry : {<<>>}]

Bundles ==
    [kind : {"bundle"}, hasTotal : {TRUE}, total : 0..MaxTotal,
     hasEntry : {TRUE}, entry : EntryLists]
    \cup [kind : {"bundle"}, hasTotal : {FALSE}, total : {0},
          hasEntry : {TRUE}, entry : EntryLists]
    \cup [kind : {"bundle"}, hasTotal : {TRUE}, total : 0..MaxTotal,
          hasEntry : {FALSE}, entry : {<<>>}]

Replies == Failures \cup Bundles

(* ------------------------- response headers ---------------------------- *)
CorsHeaders ==
    {<<"Access-Control-Allow-Origin", "*">>,
     <<"Access-Control-Allow-Method", "GET, POST, OPTIONS">>,
     <<"Access-Control-Allow-Credentials", "true">>,
     <<"Access-Control-Allow-Headers",
       "Content-Type, Authorization, Origin, Accept, Content-Location, Location, X-Requested-With">>}

\* app.use(bodyParser.json()) is registered first: when it fails it calls
\* next(err), and no ordinary middleware (the header middleware included)
\* or route runs for that request.
HeaderMiddlewareRuns(rq) == rq.bodyParses

HeadersSet(rq) == IF HeaderMiddlewareRuns(rq) THEN CorsHeaders ELSE {}

(* ----------------------------- responses ------------------------------- *)
NoRes ==
    [status |-> 0, kind |-> "none", handler |-> "none",
     cards |-> <<>>, headers |-> {}]

Response(status, kind, handler, cs, hs) ==
    [status |-> status, kind |-> kind, handler |-> handler,
     cards |-> cs, headers |-> hs]

\* res.json and res.send end the answer to a HEAD request without its body.
BodyKind(rq, kind) == IF rq.method = "HEAD" THEN "empty" ELSE kind

(* ------------------------------ routing -------------------------------- *)
\* Express matches a route path without regard to case and with an optional
\* trailing slash: the path in lower case, the trailing slash dropped.
NormalizePath(path) ==
    CASE path = "/test1/cds-services/" -> DiscoveryPath
      [] path = "/TEST1/CDS-SERVICES/PATIENTSERVICE" -> PatientPath
      [] OTHER -> path

PathMatches(route, path) == NormalizePath(path) = route

\* The name of the handler the copy binds to OPTIONS.
OptionsHandler(v) ==
    IF v = "index.js" THEN "options_patient_view" ELSE "handle_options"

\* The route table without the OPTIONS binding of the patientService path.
RouteHandlerNoPatientOptions(v, method, path) ==
    IF PathMatches(DiscoveryPath, path) /\ method \in {"GET", "HEAD"}
    THEN "handle_discovery"
    ELSE IF PathMatches(DiscoveryPath, path) /\ method = "OPTIONS"
    THEN (IF v = "index.js" THEN "handle_discovery" ELSE OptionsHandler(v))
    ELSE IF PathMatches(PatientPath, path) /\ method = "POST"
    THEN "post_patient_view"
    ELSE "handle_all"

\* The route table, first match wins.  app.get also answers HEAD.
RouteHandler(v, method, path) ==
    IF PathMatches(DiscoveryPath, path) /\ method \in {"GET", "HEAD"}
    THEN "handle_discovery"
    ELSE IF PathMatches(DiscoveryPath, path) /\ method = "OPTIONS"
    THEN (IF v = "index.js" THEN "handle_discovery" ELSE OptionsHandler(v))
    ELSE IF PathMatches(PatientPath, path) /\ method = "POST"
    THEN "post_patient_view"
    ELSE IF PathMatches(PatientPath, path) /\ method = "OPTIONS"
    THEN OptionsHandler(v)
    ELSE "handle_all"

(* ------------------------ the handlers' results ------------------------ *)
\* The default error handler's answer to a body that is not JSON.
ErrorHandlerResponse(rq) ==
    Response(400, "html", "errorhandler", <<>>, HeadersSet(rq))

handle_discovery(rq) ==
    Response(200, BodyKind(rq, "services"), "handle_discovery", <<>>,
             HeadersSet(rq))

handle_options(v, rq) ==
    Response(200, "empty", OptionsHandler(v), <<>>, HeadersSet(rq))

handle_all(rq) ==
    Response(501, BodyKind(rq, "error"), "handle_all", <<>>, HeadersSet(rq))

\* Authentication extraction behind a null check.
AuthExtractionGuarded(rq) == FALSE

\* auth.split(" ") on a missing Authorization header throws.
AuthExtractionFaults(rq) == ~rq.hasAuth

HookRejected(rq) == rq.hook # "patient-view"

\* index.js answers a wrong hook with res.json (status 200), the other copy
\* with res.status(400).json.
ValidationErrorStatus(v) == IF v = "index.js" THEN 200 ELSE 400

ValidationErrorResponse(v, rq) ==
    Response(ValidationErrorStatus(v), "error", "post_patient_view", <<>>,
             HeadersSet(rq))

\* body.context.patientId on a body without context throws.
ContextReadFaults(rq) == ~rq.hasContext

(* --------------------------- the promise chain ------------------------- *)
NoEntriesError == "No immmunization Record found"

\* The emptiness test made on the entry list instead of the total.
TotalIsZeroByEntry(b) == b.hasEntry /\ Len(b.entry) = 0

\* record.total == 0
TotalIsZero(b) == b.hasTotal /\ b.total = 0

\* Where the chain stands after rp settled, JSON.parse ran and the total was
\* looked at: the error it rejects with, or "" and the value of record.entry.
FetchOutcome(rep) ==
    IF rep.kind = "reject"
    THEN [error |-> "RequestError", defined |-> FALSE, list |-> <<>>]
    ELSE IF rep.kind = "nonjson"
    THEN [error |-> "SyntaxError", defined |-> FALSE, list |-> <<>>]
    ELSE IF TotalIsZero(rep)
    THEN [error |-> NoEntriesError, defined |-> FALSE, list |-> <<>>]
    ELSE [error |-> "", defined |-> rep.hasEntry, list |-> rep.entry]

NoImmun == [defined |-> FALSE, list |-> <<>>]

\* An insertion that puts e in front of the elements it compares equal to.
InsertSortedBeforeEqual(s, e) ==
    LET n == Cardinality({i \in 1..Len(s) :
                             LocaleCompare(s[i].text, e.text) < 0})
    IN  SubSeq(s, 1, n) \o <<e>> \o SubSeq(s, n + 1, Len(s))

\* One step of the sort: e goes behind every element that does not compare
\* greater, so elements that compare equal keep their order.
InsertSorted(s, e) ==
    LET n == Cardinality({i \in 1..Len(s) :
                             LocaleCompare(s[i].text, e.text) <= 0})
    IN  SubSeq(s, 1, n) \o <<e>> \o SubSeq(s, n + 1, Len(s))

RECURSIVE SortPrefix(_, _)
SortPrefix(l, n) ==
    IF n = 0 THEN <<>> ELSE InsertSorted(SortPrefix(l, n - 1), l[n])

\* l.sort((a, b) => a.resource.vaccineCode.text.localeCompare(...))
SortEntries(l) == SortPrefix(l, Len(l))

\* The sort throws when record.entry is undefined, and when the comparator
\* runs (two elements or more) on an entry without vaccineCode.
SortThrows(im) ==
    \/ ~im.defined
    \/ Len(im.list) >= 2 /\ \E i \in 1..Len(im.list) : ~im.list[i].hasCode

\* The expiration date read from the entry instead of its resource.
ExpCellWrongField(e) == "Does not expire"

\* val.resource.expirationDate || "Does not expire"
ExpCell(e) == IF e.hasExp /\ e.exp # "" THEN e.exp ELSE "Does not expire"

Row(e) == [vaccination |-> e.text, expiration |-> ExpCell(e)]

TableHeader == "| Vaccination | Expiration Date |\n| :---: | :---: |\n"

CardSource(v) ==
    IF v = "index.js"
    THEN [label |-> "Local Immune Registry", url |-> "http://www.google.com"]
    ELSE [label |-> "Your Immune Registry", url |-> ""]

\* The map over the sorted list reads vaccineCode.text of every entry.
RenderThrows(l) == \E i \in 1..Len(l) : ~l[i].hasCode

Render(v, l) ==
    IF Len(l) = 0 THEN <<>>
    ELSE << [summary |-> "This patient has received immunizations",
             detail |-> [header |-> TableHeader,
                         rows |-> [i \in 1..Len(l) |-> Row(l[i])]],
             source |-> CardSource(v),
             indicator |-> "info"] >>

(* ------------------------------- state --------------------------------- *)
\* pc[r]: "idle" before the request arrives, "awaiting" while the outbound
\* call is pending (hook validated), "fetched" once record.entry is in hand,
\* "rendered" once the cards are built, "failed" while a rejection travels
\* to the catch, "responded" after the response went out, "faulted" when the
\* handler threw outside the chain.
Init ==
    /\ variant \in Variants
    /\ pc = [r \in Requests |-> "idle"]
    /\ req = [r \in Requests |-> NoReq]
    /\ fhirReply = [r \in Requests |-> NoReply]
    /\ immun = [r \in Requests |-> NoImmun]
    /\ cards = [r \in Requests |-> <<>>]
    /\ err = [r \in Requests |-> ""]
    /\ res = [r \in Requests |-> NoRes]
    /\ sent = [r \in Requests |-> 0]
    /\ fhirCalls = [r \in Requests |-> 0]

\* res.json / res.send: the response of request r goes out.
Send(r, response) ==
    /\ res' = [res EXCEPT ![r] = response]
    /\ sent' = [sent EXCEPT ![r] = @ + 1]
    /\ pc' = [pc EXCEPT ![r] = "responded"]

\* The cards kept in one place for all the requests.
CardsShared(r) == cards[CHOOSE q \in Requests : q # r]

\* The value the last step of r's chain hands to res.json.
CardsOf(r) == cards[r]

\* The value record.entry of r's chain, as the sort receives it.
ImmunOf(r) == immun[r]

(* ------------------------------ actions -------------------------------- *)
\* A request whose body bodyParser.json() cannot parse.
BodyParseError(r, Reqs) ==
    \E rq \in Reqs :
        /\ pc[r] = "idle"
        /\ ~rq.bodyParses
        /\ req' = [req EXCEPT ![r] = rq]
        /\ Send(r, ErrorHandlerResponse(rq))
        /\ UNCHANGED <<variant, fhirReply, immun, cards, err, fhirCalls>>

Discovery(r, Reqs) ==
    \E rq \in Reqs :
        /\ pc[r] = "idle"
        /\ rq.bodyParses
        /\ RouteHandler(variant, rq.method, rq.path) = "handle_discovery"
        /\ req' = [req EXCEPT ![r] = rq]
        /\ Send(r, handle_discovery(rq))
        /\ UNCHANGED <<variant, fhirReply, immun, cards, err, fhirCalls>>

Options(r, Reqs) ==
    \E rq \in Reqs :
        /\ pc[r] = "idle"
        /\ rq.bodyParses
        /\ RouteHandler(variant, rq.method, rq.path) = OptionsHandler(variant)
        /\ req' = [req EXCEPT ![r] = rq]
        /\ Send(r, handle_options(variant, rq))
        /\ UNCHANGED <<variant, fhirReply, immun, cards, err, fhirCalls>>

Fallback(r, Reqs) ==
    \E rq \in Reqs :
        /\ pc[r] = "idle"
        /\ rq.bodyParses
        /\ RouteHandler(variant, rq.method, rq.path) = "handle_all"
        /\ req' = [req EXCEPT ![r] = rq]
        /\ Send(r, handle_all(rq))
        /\ UNCHANGED <<variant, fhirReply, immun, cards, err, fhirCalls>>

\* post_patient_view up to its await: authentication extraction, hook
\* validation, the read of body.context.patientId, the outbound call.
PostPatientView(r, Reqs) ==
    \E rq \in Reqs :
        /\ pc[r] = "idle"
        /\ rq.bodyParses
        /\ RouteHandler(variant, rq.method, rq.path) = "post_patient_view"
        /\ req' = [req EXCEPT ![r] = rq]
        /\ IF AuthExtractionFaults(rq)
           THEN /\ pc' = [pc EXCEPT ![r] = "faulted"]
                /\ err' = [err EXCEPT ![r] = "TypeError"]
                /\ UNCHANGED <<res, sent, fhirCalls>>
           ELSE IF HookRejected(rq)
           THEN /\ Send(r, ValidationErrorResponse(variant, rq))
                /\ UNCHANGED <<err, fhirCalls>>
           ELSE IF ContextReadFaults(rq)
           THEN /\ pc' = [pc EXCEPT ![r] = "faulted"]
                /\ err' = [err EXCEPT ![r] = "TypeError"]
                /\ UNCHANGED <<res, sent, fhirCalls>>
           ELSE /\ pc' = [pc EXCEPT ![r] = "awaiting"]
                /\ fhirCalls' = [fhirCalls EXCEPT ![r] = @ + 1]
                /\ UNCHANGED <<res, sent, err>>
        /\ UNCHANGED <<variant, fhirReply, immun, cards>>

\* The outbound call settles; JSON.parse and the look at record.total run.
FhirSettle(r, Reps) ==
    \E rep \in Reps :
        /\ pc[r] = "awaiting"
        /\ fhirReply' = [fhirReply EXCEPT ![r] = rep]
        /\ LET o == FetchOutcome(rep)
           IN  IF o.error # ""
               THEN /\ pc' = [pc EXCEPT ![r] = "failed"]
                    /\ err' = [err EXCEPT ![r] = o.error]
                    /\ UNCHANGED immun
               ELSE /\ pc' = [pc EXCEPT ![r] = "fetched"]
                    /\ immun' = [immun EXCEPT ![r] =
                                    [defined |-> o.defined, list |-> o.list]]
                    /\ UNCHANGED err
        /\ UNCHANGED <<variant, req, cards, res, sent, fhirCalls>>

\* The sort and the rendering of the card.
SortAndRender(r) ==
    /\ pc[r] = "fetched"
    /\ LET im == ImmunOf(r)
       IN  IF SortThrows(im) \/ RenderThrows(SortEntries(im.list))
           THEN /\ pc' = [pc EXCEPT ![r] = "failed"]
                /\ err' = [err EXCEPT ![r] = "TypeError"]
                /\ UNCHANGED cards
           ELSE /\ pc' = [pc EXCEPT ![r] = "rendered"]
                /\ cards' = [cards EXCEPT ![r] =
                                Render(variant, SortEntries(im.list))]
                /\ UNCHANGED err
    /\ UNCHANGED <<variant, req, fhirReply, immun, res, sent, fhirCalls>>

\* .then(cards => res.json({cards}))
Respond(r) ==
    /\ pc[r] = "rendered"
    /\ Send(r, Response(200, "cards", "post_patient_view", CardsOf(r),
                        HeadersSet(req[r])))
    /\ UNCHANGED <<variant, req, fhirReply, immun, cards, err, fhirCalls>>

\* .catch(error => res.json({cards: []}))
Catch(r) ==
    /\ pc[r] = "failed"
    /\ Send(r, Response(200, "cards", "post_patient_view", <<>>,
                        HeadersSet(req[r])))
    /\ UNCHANGED <<variant, req, fhirReply, immun, cards, err, fhirCalls>>

(* --------------------------- specifications ---------------------------- *)
\* One request, every input.
Next ==
    \/ BodyParseError(1, HttpRequests)
    \/ Discovery(1, HttpRequests)
    \/ Options(1, HttpRequests)
    \/ Fallback(1, HttpRequests)
    \/ PostPatientView(1, HttpRequests)
    \/ FhirSettle(1, Replies)
    \/ SortAndRender(1)
    \/ Respond(1)
    \/ Catch(1)

Spec == Init /\ [][Next]_vars

\* Several requests in flight; each one is a POST to the patient-view
\* endpoint, and the replies are a rejection, an empty bundle, a one-entry
\* bundle and the two-entry bundle MMR, Flu.
ConcRequests ==
    {rq \in HttpRequests :
        /\ rq.method = "POST" /\ rq.path = PatientPath /\ rq.bodyParses
        /\ rq.hook \in {"patient-view", "order-review"}}

MMREntry == [hasCode |-> TRUE, text |-> "MMR", hasExp |-> FALSE, exp |-> ""]
FluEntry ==
    [hasCode |-> TRUE, text |-> "Flu", hasExp |-> TRUE, exp |-> "2025-01-01"]

ConcReplies ==
    {rep \in Replies :
        \/ rep.kind = "reject"
        \/ /\ rep.kind = "bundle" /\ rep.hasTotal /\ rep.hasEntry
           /\ rep.entry \in {<<>>, <<MMREntry>>, <<MMREntry, FluEntry>>}
           /\ rep.total = Len(rep.entry)}

NextConc ==
    \E r \in Requests :
        \/ PostPatientView(r, ConcRequests)
        \/ FhirSettle(r, ConcReplies)
        \/ SortAndRender(r)
        \/ Respond(r)
        \/ Catch(r)

SpecConc == Init /\ [][NextConc]_vars

(* ------------------------------ properties ----------------------------- *)
\* The request is a POST to the patient-view endpoint that reached the handler.
OnPatientPath(p) ==
    p \in {"/test1/cds-services/patientService",
           "/TEST1/CDS-SERVICES/PATIENTSERVICE"}

PostToPatient(rq) ==
    rq.method = "POST" /\ OnPatientPath(rq.path) /\ rq.bodyParses

Settled(r) == pc[r] \in {"responded", "faulted"}

EmptyCards(response) ==
    response.status = 200 /\ response.kind = "cards" /\ response.cards = <<>>

\* The cell the code puts in the table for an entry: the default text when
\* expirationDate is missing or the empty string, the date otherwise.
ExpectedCell(e) ==
    IF ~e.hasExp \/ e.exp = "" THEN "Does not expire" ELSE e.exp

\* The cell as the specification words it: the default text only when
\* expirationDate is omitted.
VerbatimCell(e) == IF ~e.hasExp THEN "Does not expire" ELSE e.exp

\* rows is entry reordered by p: ascending in collation order, entries that
\* compare equal in bundle order, nothing dropped and nothing added.
SortedStableRows(rows, entry) ==
    /\ Len(rows) = Len(entry)
    /\ \E p \in Permutations(1..Len(entry)) :
          /\ \A i \in 1..Len(entry) :
                /\ rows[i].vaccination = entry[p[i]].text
                /\ rows[i].expiration = ExpectedCell(entry[p[i]])
          /\ \A i, j \in 1..Len(entry) :
                i < j =>
                   \/ LocaleRank(entry[p[i]].text) < LocaleRank(entry[p[j]].text)
                   \/ /\ entry[p[i]].text = entry[p[j]].text
                      /\ p[i] < p[j]

OneSortedCard(response, entry) ==
    /\ response.status = 200
    /\ response.kind = "cards"
    /\ Len(response.cards) = 1
    /\ SortedStableRows(response.cards[1].detail.rows, entry)

\* A valid patient-view request answered after a reply with total > 0.
AnsweredPositiveTotal(r) ==
    /\ pc[r] = "responded"
    /\ PostToPatient(req[r])
    /\ req[r].hook = "patient-view"
    /\ fhirReply[r].kind = "bundle"
    /\ fhirReply[r].hasTotal
    /\ fhirReply[r].total > 0

WellFormedEntries(rep) ==
    /\ rep.hasEntry
    /\ Len(rep.entry) > 0
    /\ \A i \in 1..Len(rep.entry) : rep.entry[i].hasCode

\* C1 as stated: every valid patient-view request whose FHIR reply has
\* total > 0 is answered with exactly one card whose rows are the bundle's
\* entries, sorted ascending by vaccine name, ties in bundle order.
C1_AsStated ==
    \A r \in Requests :
        AnsweredPositiveTotal(r) => OneSortedCard(res[r], fhirReply[r].entry)

\* C1 amended: every valid patient-view request whose FHIR reply has
\* total > 0 and a non-empty entry list in which every entry has a
\* vaccineCode is answered with exactly one card whose rows are the bundle's
\* entries, sorted ascending by vaccine name, ties in bundle order.
C1_OneSortedCard ==
    \A r \in Requests :
        AnsweredPositiveTotal(r) /\ WellFormedEntries(fhirReply[r])
            => OneSortedCard(res[r], fhirReply[r].entry)

\* The specification's scenario: MMR, Flu (2025-01-01) comes back as
\* Flu (2025-01-01), MMR (Does not expire).
C1_Witness ==
    /\ AnsweredPositiveTotal(1)
    /\ fhirReply[1].entry = <<MMREntry, FluEntry>>
    /\ Len(res[1].cards) = 1
    /\ res[1].cards[1].detail.rows =
          << [vaccination |-> "Flu", expiration |-> "2025-01-01"],
             [vaccination |-> "MMR", expiration |-> "Does not expire"] >>

\* A valid patient-view request whose FHIR reply is a bundle with total 0.
ZeroTotal(r) ==
    /\ PostToPatient(req[r])
    /\ req[r].hook = "patient-view"
    /\ fhirReply[r].kind = "bundle"
    /\ fhirReply[r].hasTotal
    /\ fhirReply[r].total = 0

\* C2: a valid patient-view request whose FHIR bundle has total == 0 takes
\* the empty-result short-circuit (the chain rejects with the domain error
\* and never sorts or renders) and is answered once, HTTP 200 {cards: []}.
C2_EmptyShortCircuit ==
    \A r \in Requests :
        ZeroTotal(r) =>
            /\ pc[r] \in {"failed", "responded"}
            /\ err[r] = NoEntriesError
            /\ cards[r] = <<>>
            /\ pc[r] = "responded" => EmptyCards(res[r]) /\ sent[r] = 1

\* A total of 0 beside a non-empty entry list, answered.
C2_Witness ==
    /\ ZeroTotal(1)
    /\ pc[1] = "responded"
    /\ fhirReply[1].hasEntry
    /\ Len(fhirReply[1].entry) > 0
    /\ EmptyCards(res[1])

\* C3 as stated: for a POST to the patient-view endpoint with a valid hook,
\* every failure after validation ends with HTTP 200 {cards: []}.
C3_FailuresAbsorbed ==
    \A r \in Requests :
        /\ Settled(r)
        /\ PostToPatient(req[r])
        /\ req[r].hasAuth
        /\ req[r].hook = "patient-view"
        /\ err[r] # ""
        => pc[r] = "responded" /\ EmptyCards(res[r]) /\ sent[r] = 1

\* C4 as stated: a POST to the patient-view endpoint whose hook is not
\* exactly "patient-view" is answered with HTTP 400 and an error body.
C4_WrongHook400 ==
    \A r \in Requests :
        /\ Settled(r)
        /\ PostToPatient(req[r])
        /\ req[r].hook # "patient-view"
        => /\ pc[r] = "responded"
           /\ res[r].status = 400
           /\ res[r].kind = "error"

\* C5 as stated: every response sent, the answer to a body that fails to
\* parse included, carries the four CORS headers with their fixed values.
C5_CorsOnEveryResponse ==
    \A r \in Requests : sent[r] > 0 => CorsHeaders \subseteq res[r].headers

\* The pipeline is running or has run for request r.
InPipeline(r) ==
    \/ pc[r] \in {"awaiting", "fetched", "rendered", "failed", "faulted"}
    \/ pc[r] = "responded" /\ res[r].handler = "post_patient_view"

Answered(r, status, kind) ==
    /\ pc[r] = "responded"
    /\ sent[r] = 1
    /\ res[r].status = status
    /\ res[r].kind = kind

OnDiscoveryPath(p) == p \in {"/test1/cds-services", "/test1/cds-services/"}

Fallen(r) ==
    /\ res[r].handler = "handle_all"
    /\ IF req[r].method = "HEAD"
       THEN Answered(r, 501, "empty") ELSE Answered(r, 501, "error")

CellsFollow(rows, entry, Cell(_)) ==
    /\ Len(rows) = Len(entry)
    /\ \E p \in Permutations(1..Len(entry)) :
          \A i \in 1..Len(entry) :
              /\ rows[i].vaccination = entry[p[i]].text
              /\ rows[i].expiration = Cell(entry[p[i]])

CardSent(r) ==
    /\ pc[r] = "responded"
    /\ res[r].kind = "cards"
    /\ Len(res[r].cards) = 1

\* C7 as stated: in the rendered card the second cell of an entry is
\* "Does not expire" when expirationDate is omitted and the supplied string
\* verbatim when it is present.
C7_AsStated ==
    \A r \in Requests :
        CardSent(r) =>
            CellsFollow(res[r].cards[1].detail.rows, fhirReply[r].entry,
                        VerbatimCell)

\* C7 amended: in the rendered card the second cell of an entry is
\* "Does not expire" when expirationDate is omitted or the empty string,
\* and the supplied string verbatim when it is a non-empty string.
C7_ExpirationCell ==
    \A r \in Requests :
        CardSent(r) =>
            CellsFollow(res[r].cards[1].detail.rows, fhirReply[r].entry,
                        ExpectedCell)

\* A card with one dated and one undated entry of the same vaccine.
C7_Witness ==
    /\ CardSent(1)
    /\ Len(fhirReply[1].entry) = 2
    /\ ~fhirReply[1].entry[1].hasExp
    /\ fhirReply[1].entry[2].exp = "2025-01-01"
    /\ fhirReply[1].entry[1].text = fhirReply[1].entry[2].text
    /\ res[1].cards[1].detail.rows[1].expiration = "Does not expire"
    /\ res[1].cards[1].detail.rows[2].expiration = "2025-01-01"

\* C8 as stated: every POST to the patient-view endpoint whose handler has
\* run to its end reached Responded and sent exactly one response.
C8_ExactlyOneResponse ==
    \A r \in Requests :
        Settled(r) /\ PostToPatient(req[r]) =>
            pc[r] = "responded" /\ sent[r] = 1

\* C9: a POST to the patient-view endpoint without an Authorization header
\* faults in authentication extraction: no response is sent for it (not the
\* validation error either, whatever the hook) and no FHIR request goes out.
C9_MissingAuthFaults ==
    \A r \in Requests :
        pc[r] # "idle" /\ PostToPatient(req[r]) /\ ~req[r].hasAuth =>
            /\ pc[r] = "faulted"
            /\ sent[r] = 0
            /\ res[r] = NoRes
            /\ fhirCalls[r] = 0

\* No Authorization header and a wrong hook at once.
C9_Witness ==
    /\ PostToPatient(req[1])
    /\ ~req[1].hasAuth
    /\ req[1].hook = "order-review"
    /\ pc[1] = "faulted"

\* The response a patient-view request gets when it runs alone.
SoloCards(v, rep) ==
    LET o == FetchOutcome(rep)
    IN  IF o.error # "" THEN <<>>
        ELSE IF SortThrows(o) \/ RenderThrows(SortEntries(o.list)) THEN <<>>
        ELSE Render(v, SortEntries(o.list))

SoloResponse(v, rq, rep) ==
    IF HookRejected(rq)
    THEN ValidationErrorResponse(v, rq)
    ELSE Response(200, "cards", "post_patient_view", SoloCards(v, rep),
                  CorsHeaders)

\* Everything the model keeps for request r.
Own(r) ==
    <<pc[r], req[r], fhirReply[r], immun[r], cards[r], err[r], res[r],
      sent[r], fhirCalls[r]>>

\* C10: with several patient-view requests in flight and their replies
\* arriving in any order, a step changes the state of one request only, and
\* a request that is answered gets the response its own body and its own
\* FHIR reply determine.
C10_Isolation ==
    [][ /\ \A r \in Requests :
              pc'[r] = "responded" =>
                  res'[r] = SoloResponse(variant, req'[r], fhirReply'[r])
        /\ \A r, q \in Requests :
              r # q /\ Own(r)' # Own(r) => Own(q)' = Own(q) ]_vars

\* One request answered with its card while another, still in flight, holds
\* a different card of its own.
C10_Witness ==
    /\ pc[1] = "responded"
    /\ pc[2] = "rendered"
    /\ Len(res[1].cards) = 1
    /\ Len(cards[2]) = 1
    /\ res[1].cards # cards[2]

====
